---- MODULE Spec2Model ----
(***************************************************************************)
(* rstcheck-core: the markup-extension resolution subsystem.               *)
(*                                                                         *)
(*   src/src/rstcheck_core/_docutils.py   ignore registry, code directive, *)
(*                                        substitution handlers            *)
(*   src/src/rstcheck_core/_sphinx.py     conf.py locator, catalog,        *)
(*                                        whitelist filter, prolog         *)
(*                                        extraction                       *)
(*                                                                         *)
(* Text that the code scans character by character (the rst_prolog, the    *)
(* content lines of a code directive) is a sequence of one-character       *)
(* strings; names and values are strings.  docutils' tables and Python     *)
(* dicts are insertion-ordered association lists.  All names of the model  *)
(* are lower case, so docutils' case folding of role names is the identity *)
(* on them.                                                                *)
(***************************************************************************)
EXTENDS Naturals, Sequences, FiniteSets, TLC

VARIABLES
    SPHINX_INSTALLED,   \* _extras.SPHINX_INSTALLED, fixed for the process
    sphinx,             \* the toolchain's own directive and role tables
    directives,         \* docutils.parsers.rst.directives._directives
    roles,              \* docutils.parsers.rst.roles._roles
    call,               \* the last call: its arguments, result and error
    input               \* the arguments drawn for a pure function

vars == <<SPHINX_INSTALLED, sphinx, directives, roles, call, input>>

(***************************************************************************)
(* Bounds of the model.                                                    *)
(***************************************************************************)
MaxNames == 2        \* longest directive or role list handed to a call
MaxPrologLines == 3  \* lines of an rst_prolog
MaxContent == 3      \* content lines of a code directive
MaxDepth == 3        \* depth of the starting directory below the root
MaxCatalog == 3      \* longest list handed to the whitelist filter

NoError == "none"
FeatureUnavailable == "FeatureUnavailable"

(***************************************************************************)
(* Python dicts (and docutils' tables, which are dicts): association lists *)
(* in insertion order, one entry per key.                                  *)
(***************************************************************************)
Range(s) == {s[i] : i \in DOMAIN s}

EmptyDict == <<>>

Keys(d) == {d[i].key : i \in DOMAIN d}

KeyList(d) == [i \in DOMAIN d |-> d[i].key]

Has(d, k) == \E i \in DOMAIN d : d[i].key = k

Get(d, k) == d[CHOOSE i \in DOMAIN d : d[i].key = k].value

\* d[k] = v
DictSet(d, k, v) ==
    IF Has(d, k)
    THEN [i \in DOMAIN d |-> IF d[i].key = k THEN [key |-> k, value |-> v] ELSE d[i]]
    ELSE Append(d, [key |-> k, value |-> v])

Entries(d, k) == {i \in DOMAIN d : d[i].key = k}

\* the entries of d under the keys ks, as they stand before a call
Under(d, ks) == SelectSeq(d, LAMBDA e : e.key \in ks)

(***************************************************************************)
(* _docutils.py                                                            *)
(***************************************************************************)
IgnoredDirective == "IgnoredDirective"
CodeBlockDirective == "CodeBlockDirective"

\* IgnoredDirective.run
IgnoredDirective_run == <<>>

Text(t) == [node |-> "Text", text |-> t]

\* ignore_role(name, rawtext, text, ...): the function object and its call
ignore_role == [fn |-> "ignore_role"]

ignore_role_call(name, rawtext, text) == [nodes |-> <<>>, messages |-> <<>>]

\* The closure register_substitution_handler(name, text) creates.  `outer`
\* is the text of the enclosing call; the closure's own parameter `text`
\* has the same name and hides it.
handler(outer) == [fn |-> "handler", outer |-> outer]

handler_call(outer, name, rawtext, text) ==
    [nodes |-> <<Text(text)>>, messages |-> <<>>]

\* docutils.parsers.rst.directives.register_directive(name, directive)
register_directive(table, name, directive) == DictSet(table, name, directive)

\* docutils.parsers.rst.roles.register_local_role(name, role_fn)
register_local_role(table, name, role_fn) == DictSet(table, name, role_fn)

\* as ignore_directives, but a name that is already registered is left alone
RECURSIVE ignore_new_directives(_, _)
ignore_new_directives(table, ds) ==
    IF ds = <<>> THEN table
    ELSE ignore_new_directives(
             IF Has(table, Head(ds)) THEN table
             ELSE register_directive(table, Head(ds), IgnoredDirective),
             Tail(ds))

\* for directive in directives: register_directive(directive, IgnoredDirective)
RECURSIVE ignore_directives(_, _)
ignore_directives(table, ds) ==
    IF ds = <<>> THEN table
    ELSE ignore_directives(register_directive(table, Head(ds), IgnoredDirective), Tail(ds))

\* for role in roles: register_local_role(role, ignore_role)
RECURSIVE ignore_roles(_, _)
ignore_roles(table, rs) ==
    IF rs = <<>> THEN table
    ELSE ignore_roles(register_local_role(table, Head(rs), ignore_role), Tail(rs))

SubstitutionKey(name) == "substitution-" \o name

\* register_substitution_handler(name, text), as a function of the role table
substitution_handler(table, name, text) ==
    register_local_role(table, SubstitutionKey(name), handler(text))

\* for name, value in substitutions.items(): register_substitution_handler(name, value)
RECURSIVE substitution_handlers(_, _)
substitution_handlers(table, items) ==
    IF items = <<>> THEN table
    ELSE substitution_handlers(
             substitution_handler(table, Head(items).key, Head(items).value),
             Tail(items))

\* register_code_directive, as a function of the directive table
code_directives(table, installed, ignore_code, ignore_codeblock, ignore_sourcecode) ==
    IF installed THEN table
    ELSE LET t1 == IF ~ignore_code
                   THEN register_directive(table, "code", CodeBlockDirective)
                   ELSE table
             t2 == IF ~ignore_codeblock
                   THEN register_directive(t1, "code-block", CodeBlockDirective)
                   ELSE t1
         IN  IF ~ignore_sourcecode
             THEN register_directive(t2, "sourcecode", CodeBlockDirective)
             ELSE t2

\* importlib.reload runs the module again: its table is empty once more
reload(table) == EmptyDict

\* as clean_docutils_directives_and_roles_cache, but only one module is reloaded
clean_directives_only ==
    /\ directives' = reload(directives)
    /\ roles' = roles
    /\ call' = [op |-> "clean_docutils_directives_and_roles_cache",
                had |-> [directives |-> Len(directives), roles |-> Len(roles)],
                raised |-> NoError]

clean_docutils_directives_and_roles_cache ==
    /\ directives' = reload(directives)
    /\ roles' = reload(roles)
    /\ call' = [op |-> "clean_docutils_directives_and_roles_cache",
                had |-> [directives |-> Len(directives), roles |-> Len(roles)],
                raised |-> NoError]

ignore_directives_and_roles(ds, rs) ==
    /\ directives' = ignore_directives(directives, ds)
    /\ roles' = ignore_roles(roles, rs)
    /\ call' = [op |-> "ignore_directives_and_roles", directives |-> ds, roles |-> rs,
                had |-> [directives |-> Under(directives, Range(ds)),
                         roles |-> Under(roles, Range(rs))],
                raised |-> NoError]

\* as substitutions_and_targets, but the targets get a handler too
substitutions_and_targets_both(table, substitutions, targets) ==
    substitution_handlers(substitution_handlers(table, substitutions), targets)

\* register_substitutions_and_targets, as a function of the role table
substitutions_and_targets(table, substitutions, targets) ==
    substitution_handlers(table, substitutions)

register_substitutions_and_targets(substitutions, targets) ==
    /\ roles' = substitutions_and_targets(roles, substitutions, targets)
    /\ directives' = directives
    /\ call' = [op |-> "register_substitutions_and_targets",
                substitutions |-> substitutions, targets |-> targets,
                raised |-> NoError]

register_code_directive(ignore_code, ignore_codeblock, ignore_sourcecode) ==
    /\ directives' = code_directives(directives, SPHINX_INSTALLED,
                                     ignore_code, ignore_codeblock, ignore_sourcecode)
    /\ roles' = roles
    /\ call' = [op |-> "register_code_directive",
                flags |-> <<ignore_code, ignore_codeblock, ignore_sourcecode>>,
                had |-> Under(directives, {"code", "code-block", "sourcecode"}),
                raised |-> NoError]

register_substitution_handler(name, text) ==
    /\ roles' = substitution_handler(roles, name, text)
    /\ directives' = directives
    /\ call' = [op |-> "register_substitution_handler", name |-> name, text |-> text,
                had |-> Under(roles, {SubstitutionKey(name)}),
                raised |-> NoError]

\* The parser applies the role registered under `key` to an occurrence
\* whose text is `text`.
RoleCall(fn, name, rawtext, text) ==
    IF fn.fn = "ignore_role"
    THEN ignore_role_call(name, rawtext, text)
    ELSE handler_call(fn.outer, name, rawtext, text)

InvokeRole(key, text) ==
    /\ Has(roles, key)
    /\ UNCHANGED <<directives, roles>>
    /\ call' = [op |-> "role", key |-> key, fn |-> Get(roles, key), text |-> text,
                result |-> RoleCall(Get(roles, key), key, text, text),
                raised |-> NoError]

(***************************************************************************)
(* _sphinx.py: find_sphinx_confdir.  A directory is the sequence of its    *)
(* components below the filesystem root; the root is the empty sequence    *)
(* and is its own parent, as pathlib.Path("/").parent is.  `conffiles` is  *)
(* the set of directories that hold a conf.py.                             *)
(***************************************************************************)
Root == <<>>

parent(dir) == IF dir = Root THEN Root ELSE SubSeq(dir, 1, Len(dir) - 1)

NoPath == [some |-> FALSE]

SomePath(dir) == [some |-> TRUE, path |-> dir]

RECURSIVE confdir_loop(_, _)
confdir_loop(current_dir, conffiles) ==
    IF current_dir # parent(current_dir)
    THEN IF current_dir \in conffiles
         THEN SomePath(current_dir)
         ELSE confdir_loop(parent(current_dir), conffiles)
    ELSE NoPath

find_sphinx_confdir(source_file_dir, conffiles) ==
    confdir_loop(source_file_dir, conffiles)

(***************************************************************************)
(* The two regular expressions of load_sphinx_if_available and             *)
(* re.findall, on a text that is a sequence of characters.                 *)
(*   sub_pattern   \.\. \|([^|]+)\| replace:: (.+)                         *)
(*   link_pattern  \.\. _([^:]+): (.+)                                     *)
(* [^c]+ is greedy and the next thing to match is c itself, so the group   *)
(* is the whole run of characters up to the next c.  (.+) is greedy and    *)
(* `.` matches everything but a newline, so the group runs to the end of   *)
(* the line.                                                               *)
(***************************************************************************)
RECURSIVE Str(_)
Str(cs) == IF cs = <<>> THEN "" ELSE Head(cs) \o Str(Tail(cs))

Literal(s, i, lit) ==
    /\ i + Len(lit) - 1 <= Len(s)
    /\ \A k \in 1..Len(lit) : s[i + k - 1] = lit[k]

\* the first position >= i that holds one of the characters cs, or Len(s)+1
RECURSIVE Scan(_, _, _)
Scan(s, i, cs) ==
    IF i > Len(s) \/ s[i] \in cs THEN i ELSE Scan(s, i + 1, cs)

NoMatch == [ok |-> FALSE]

\* head ([^stop]+) mid (.+) matched at position i
MatchAt(s, i, head, stop, mid) ==
    LET n1 == i + Len(head)
        n2 == Scan(s, n1, {stop})
        v1 == n2 + Len(mid)
        v2 == Scan(s, v1, {"\n"})
    IN  IF /\ Literal(s, i, head)
           /\ n2 > n1
           /\ Literal(s, n2, mid)
           /\ v2 > v1
        THEN [ok |-> TRUE, name |-> Str(SubSeq(s, n1, n2 - 1)),
              value |-> Str(SubSeq(s, v1, v2 - 1)), end |-> v2]
        ELSE NoMatch

\* re.findall: the matches from left to right, none overlapping another
FindAll(s, start, head, stop, mid) ==
    LET F[i \in 1..(Len(s) + 1)] ==
            IF i > Len(s) THEN <<>>
            ELSE LET m == MatchAt(s, i, head, stop, mid)
                 IN  IF m.ok
                     THEN <<[key |-> m.name, value |-> m.value]>> \o F[m.end]
                     ELSE F[i + 1]
    IN  F[start]

SubHead == <<".", ".", " ", "|">>
SubMid == <<"|", " ", "r", "e", "p", "l", "a", "c", "e", ":", ":", " ">>
LinkHead == <<".", ".", " ", "_">>
LinkMid == <<":", " ">>

\* re.findall(sub_pattern, rst_prolog)
findall_sub(rst_prolog) == FindAll(rst_prolog, 1, SubHead, "|", SubMid)

\* re.findall(link_pattern, rst_prolog)
findall_link(rst_prolog) == FindAll(rst_prolog, 1, LinkHead, ":", LinkMid)

(***************************************************************************)
(* _sphinx.py: create_dummy_sphinx_app and load_sphinx_if_available.       *)
(* `conf` is what the conf.py of the configuration directory sets:         *)
(* rst_prolog (a text, or None) and html_context (a dict).  Without a      *)
(* configuration directory the application has sphinx' defaults.           *)
(***************************************************************************)
NoText == [some |-> FALSE]

SomeText(cs) == [some |-> TRUE, text |-> cs]

DefaultConf == [rst_prolog |-> NoText, html_context |-> EmptyDict]

NoApp == [some |-> FALSE]

create_dummy_sphinx_app(confdir, conf) ==
    [some |-> TRUE, confdir |-> confdir,
     config |-> IF confdir.some THEN conf ELSE DefaultConf]

\* as assign_and_register, but the first value of a name is kept
assign_once_and_register(st, name, value) ==
    [st EXCEPT !.substitutions = IF Has(st.substitutions, name) THEN st.substitutions
                                 ELSE DictSet(st.substitutions, name, value),
               !.roles = substitution_handler(st.roles, name, value)]

\* substitutions[name] = value; register_substitution_handler(name, value)
assign_and_register(st, name, value) ==
    [st EXCEPT !.substitutions = DictSet(st.substitutions, name, value),
               !.roles = substitution_handler(st.roles, name, value)]

\* for name, value in subs: ...   (the rst_prolog matches, lines 127-130)
RECURSIVE prolog_substitutions(_, _)
prolog_substitutions(st, subs) ==
    IF subs = <<>> THEN st
    ELSE prolog_substitutions(
             assign_and_register(st, Head(subs).key, Head(subs).value), Tail(subs))

\* for name, target in links: targets[name] = target
RECURSIVE prolog_targets(_, _)
prolog_targets(st, links) ==
    IF links = <<>> THEN st
    ELSE prolog_targets(
             [st EXCEPT !.targets = DictSet(st.targets, Head(links).key, Head(links).value)],
             Tail(links))

\* for name, value in subs.items(): ...   (html_context, lines 145-148)
RECURSIVE context_substitutions(_, _)
context_substitutions(st, items) ==
    IF items = <<>> THEN st
    ELSE context_substitutions(
             assign_and_register(st, Head(items).key, Head(items).value), Tail(items))

\* lines 118-138: the rst_prolog, when it is set and not empty
extract_prolog(st, config) ==
    IF config.rst_prolog.some /\ config.rst_prolog.text # <<>>
    THEN prolog_targets(
             prolog_substitutions(st, findall_sub(config.rst_prolog.text)),
             findall_link(config.rst_prolog.text))
    ELSE st

\* lines 141-148: html_context, when it is not empty and has 'substitutions'
extract_context(st, config) ==
    IF config.html_context # EmptyDict /\ Has(config.html_context, "substitutions")
    THEN context_substitutions(st, Get(config.html_context, "substitutions"))
    ELSE st

\* lines 151-152
register_extracted(st) ==
    IF st.substitutions # EmptyDict \/ st.targets # EmptyDict
    THEN [st EXCEPT !.roles = substitutions_and_targets(st.roles, st.substitutions,
                                                        st.targets)]
    ELSE st

\* lines 112-152: the substitution step, from the role table `table`
extract_and_register(table, config) ==
    register_extracted(
        extract_context(
            extract_prolog(
                [substitutions |-> EmptyDict, targets |-> EmptyDict, roles |-> table],
                config),
            config))

\* as sphinx_if_available, but SPHINX_INSTALLED is not looked at
sphinx_unconditionally(installed, table, source_file_dir, conffiles, conf) ==
    LET confdir == IF source_file_dir.some
                   THEN find_sphinx_confdir(source_file_dir.path, conffiles)
                   ELSE NoPath
        app == create_dummy_sphinx_app(confdir, conf)
    IN  IF app.some /\ confdir.some
        THEN LET st == extract_and_register(table, app.config)
             IN  [app |-> app, confdir |-> confdir, built |-> TRUE,
                  substitutions |-> st.substitutions, targets |-> st.targets,
                  roles |-> st.roles]
        ELSE [app |-> app, confdir |-> confdir, built |-> FALSE,
              substitutions |-> EmptyDict, targets |-> EmptyDict, roles |-> table]

\* The locals of load_sphinx_if_available when it yields.
sphinx_if_available(installed, table, source_file_dir, conffiles, conf) ==
    IF installed
    THEN LET confdir == IF source_file_dir.some
                        THEN find_sphinx_confdir(source_file_dir.path, conffiles)
                        ELSE NoPath
             app == create_dummy_sphinx_app(confdir, conf)
         IN  IF app.some /\ confdir.some
             THEN LET st == extract_and_register(table, app.config)
                  IN  [app |-> app, confdir |-> confdir, built |-> TRUE,
                       substitutions |-> st.substitutions, targets |-> st.targets,
                       roles |-> st.roles]
             ELSE [app |-> app, confdir |-> confdir, built |-> FALSE,
                   substitutions |-> EmptyDict, targets |-> EmptyDict, roles |-> table]
    ELSE [app |-> NoApp, confdir |-> NoPath, built |-> FALSE,
          substitutions |-> EmptyDict, targets |-> EmptyDict, roles |-> table]

load_sphinx_if_available(source_file_dir, conffiles, conf) ==
    LET r == sphinx_if_available(SPHINX_INSTALLED, roles, source_file_dir, conffiles, conf)
    IN  /\ roles' = r.roles
        /\ directives' = directives
        /\ call' = [op |-> "load_sphinx_if_available", app |-> r.app.some,
                    confdir |-> r.confdir, built |-> r.built,
                    substitutions |-> r.substitutions, targets |-> r.targets,
                    raised |-> NoError]

(***************************************************************************)
(* _sphinx.py: the catalog, the whitelist filter, load_sphinx_ignores.     *)
(* _extras.install_guard is not among the sources: it raises               *)
(* ModuleNotFoundError when the package is not installed.                  *)
(***************************************************************************)
install_guard(installed) == IF installed THEN NoError ELSE FeatureUnavailable

RECURSIVE Qualified(_, _)
Qualified(domain, items) ==
    IF items = <<>> THEN <<>>
    ELSE <<domain \o ":" \o Head(items)>> \o Qualified(domain, Tail(items))

\* the loop over CDomain, CPPDomain, JavaScriptDomain, PythonDomain
RECURSIVE domain_names(_, _, _)
domain_names(acc, domains, kind) ==
    IF domains = <<>> THEN acc
    ELSE domain_names(
             acc \o Head(domains)[kind] \o Qualified(Head(domains).name, Head(domains)[kind]),
             Tail(domains), kind)

\* sphinx.util.docutils.directives and .roles are docutils' own modules:
\* the catalog ends with the names registered in docutils' tables.
sphinx_directives_and_roles(tool, dtable, rtable) ==
    [directives |-> domain_names(tool.std.directives, tool.domains, "directives")
                        \o KeyList(dtable),
     roles |-> domain_names(tool.std.roles, tool.domains, "roles") \o KeyList(rtable)]

DIRECTIVE_WHITELIST == <<"code", "code-block", "sourcecode", "include">>
ROLE_WHITELIST == <<>>

\* as filter_whitelisted_directives_and_roles, but 'include' is let through
filter_code_directives_and_roles(ds, rs) ==
    [directives |-> SelectSeq(ds, LAMBDA d : d \notin {"code", "code-block", "sourcecode"}),
     roles |-> SelectSeq(rs, LAMBDA r : r \notin Range(ROLE_WHITELIST))]

filter_whitelisted_directives_and_roles(ds, rs) ==
    [directives |-> SelectSeq(ds, LAMBDA d : d \notin Range(DIRECTIVE_WHITELIST)),
     roles |-> SelectSeq(rs, LAMBDA r : r \notin Range(ROLE_WHITELIST))]

\* as sphinx_ignores, but the catalog is handed on as it was found
sphinx_ignores_unfiltered(tool, dtable, rtable) ==
    sphinx_directives_and_roles(tool, dtable, rtable)

\* what load_sphinx_ignores hands to ignore_directives_and_roles
sphinx_ignores(tool, dtable, rtable) ==
    LET found == sphinx_directives_and_roles(tool, dtable, rtable)
    IN  filter_whitelisted_directives_and_roles(found.directives, found.roles)

get_sphinx_directives_and_roles ==
    /\ UNCHANGED <<directives, roles>>
    /\ call' = IF install_guard(SPHINX_INSTALLED) # NoError
               THEN [op |-> "get_sphinx_directives_and_roles",
                     raised |-> install_guard(SPHINX_INSTALLED)]
               ELSE [op |-> "get_sphinx_directives_and_roles",
                     result |-> sphinx_directives_and_roles(sphinx, directives, roles),
                     raised |-> NoError]

load_sphinx_ignores ==
    IF install_guard(SPHINX_INSTALLED) # NoError
    THEN /\ UNCHANGED <<directives, roles>>
         /\ call' = [op |-> "load_sphinx_ignores",
                     raised |-> install_guard(SPHINX_INSTALLED)]
    ELSE LET passed == sphinx_ignores(sphinx, directives, roles)
         IN  /\ directives' = ignore_directives(directives, passed.directives)
             /\ roles' = ignore_roles(roles, passed.roles)
             /\ call' = [op |-> "load_sphinx_ignores",
                         found |-> sphinx_directives_and_roles(sphinx, directives, roles),
                         passed |-> passed, raised |-> NoError]

(***************************************************************************)
(* _docutils.py: CodeBlockDirective.run.  A content line is a sequence of  *)
(* characters, and so is the text of the literal block.                    *)
(***************************************************************************)
\* "\n".join(content)
RECURSIVE Join(_)
Join(content) ==
    IF content = <<>> THEN <<>>
    ELSE IF Len(content) = 1 THEN content[1]
    ELSE content[1] \o <<"\n">> \o Join(Tail(content))

\* as CodeBlockDirective_run, but every line is ended by a newline
CodeBlockDirective_run_lines(arguments, content) ==
    LET language == IF Len(arguments) >= 1 THEN arguments[1] ELSE ""
        code == IF content = <<>> THEN <<>> ELSE Join(content) \o <<"\n">>
    IN  <<[node |-> "literal_block", rawsource |-> code, text |-> code,
           classes |-> <<"code-block">>, language |-> language]>>

CodeBlockDirective_run(arguments, content) ==
    LET language == IF Len(arguments) >= 1 THEN arguments[1] ELSE ""
        code == Join(content)
    IN  <<[node |-> "literal_block", rawsource |-> code, text |-> code,
           classes |-> <<"code-block">>, language |-> language]>>

(***************************************************************************)
(* The arguments the calls are given.                                      *)
(***************************************************************************)
SeqsUpTo(S, n) == UNION {[1..k -> S] : k \in 0..n}

\* dicts of at most n entries with keys in K and values in V
Dicts(K, V, n) ==
    {d \in SeqsUpTo([key : K, value : V], n) :
        \A i, j \in DOMAIN d : d[i].key = d[j].key => i = j}

IgnoreDirectiveNames == {"code"}
IgnoreRoleNames == {"substitution-a"}
SubstitutionNames == {"a", "b"}
SubstitutionValues == {"X", "Z"}
TargetNames == {"t"}
TargetValues == {"u"}
ReferenceTexts == {"X", "seen"}

\* a substitution definition, a link target, and a line that is neither
SubLine(name, value) == SubHead \o <<name>> \o SubMid \o <<value>>
LinkLine(name, value) == LinkHead \o <<name>> \o LinkMid \o <<value>>
PlainLine == <<"|", "a", "|", ":", " ", "x">>
\* a definition cut in two: its name runs over the end of the line
OpenLine == SubHead \o <<"a">>
CloseLine == SubMid \o <<"X">>

PrologLines ==
    {SubLine("a", "X"), SubLine("b", "X"), SubLine("b", "Z"),
     LinkLine("t", "u"), LinkLine("t", "v"), PlainLine, OpenLine, CloseLine}

RECURSIVE JoinLines(_)
JoinLines(ls) ==
    IF ls = <<>> THEN <<>>
    ELSE IF Len(ls) = 1 THEN ls[1]
    ELSE ls[1] \o <<"\n">> \o JoinLines(Tail(ls))

Prologs ==
    {NoText} \cup {SomeText(JoinLines(ls)) : ls \in SeqsUpTo(PrologLines, MaxPrologLines)}

HtmlContexts ==
    {EmptyDict, <<[key |-> "display_github", value |-> EmptyDict]>>}
        \cup {<<[key |-> "substitutions", value |-> d]>> : d \in Dicts({"a", "c"}, {"W"}, 2)}

Confs == [rst_prolog : Prologs, html_context : HtmlContexts]

\* the conf.py files the registries are driven with
RegistryConfs ==
    {DefaultConf,
     [rst_prolog |-> SomeText(JoinLines(<<SubLine("a", "X"), LinkLine("t", "u")>>)),
      html_context |-> EmptyDict],
     [rst_prolog |-> SomeText(JoinLines(<<SubLine("b", "X"), SubLine("b", "Z")>>)),
      html_context |-> <<[key |-> "substitutions",
                          value |-> <<[key |-> "b", value |-> "X"]>>]>>],
     [rst_prolog |-> SomeText(LinkLine("a", "u")), html_context |-> EmptyDict]}

\* at most MaxNames names in one call
IgnoreArgs ==
    {args \in SeqsUpTo(IgnoreDirectiveNames, MaxNames) \X SeqsUpTo(IgnoreRoleNames, MaxNames) :
        Len(args[1]) + Len(args[2]) <= MaxNames}

SubstitutionArgs ==
    {args \in Dicts(SubstitutionNames, SubstitutionValues, MaxNames)
               \X Dicts(TargetNames, TargetValues, 1) :
        Len(args[1]) + Len(args[2]) <= MaxNames}

\* the source file's directory, the directories with a conf.py, the conf.py
LoadArgs ==
    {<<NoPath, {<<"p">>}, DefaultConf>>, <<SomePath(<<"p">>), {}, DefaultConf>>}
        \cup {<<SomePath(<<"p">>), {<<"p">>}, conf>> : conf \in RegistryConfs}

Components == {"p", "q"}
Dirs == SeqsUpTo(Components, MaxDepth)

\* sphinx' tables: the standard domain and the c, cpp, js and py domains
Domain(name, ds, rs) == [name |-> name, directives |-> ds, roles |-> rs]

NoToolchain ==
    [std |-> [directives |-> <<>>, roles |-> <<>>],
     domains |-> <<Domain("c", <<>>, <<>>), Domain("cpp", <<>>, <<>>),
                   Domain("js", <<>>, <<>>), Domain("py", <<>>, <<>>)>>]

Toolchains ==
    {[std |-> [directives |-> <<"glossary">>, roles |-> <<"ref">>],
      domains |-> <<Domain("c", <<"function">>, <<>>), Domain("cpp", <<>>, <<>>),
                    Domain("js", <<>>, <<>>), Domain("py", <<"function">>, <<>>)>>],
     [std |-> [directives |-> <<"code-block", "glossary">>, roles |-> <<>>],
      domains |-> <<Domain("c", <<>>, <<>>), Domain("cpp", <<>>, <<>>),
                    Domain("js", <<>>, <<>>), Domain("py", <<"include">>, <<"ref">>)>>]}

(***************************************************************************)
(* The pure functions, each applied once to arguments drawn at the start.  *)
(***************************************************************************)
Quiet ==
    /\ sphinx = NoToolchain
    /\ directives = EmptyDict
    /\ roles = EmptyDict
    /\ call = [op |-> "import", raised |-> NoError]

Kept == UNCHANGED <<SPHINX_INSTALLED, sphinx, input>>

\* the directories from dir up to the root
Ancestors(dir) == {SubSeq(dir, 1, k) : k \in 0..Len(dir)}

InitLocate ==
    /\ SPHINX_INSTALLED = TRUE
    /\ Quiet
    /\ \E dir \in Dirs : \E conffiles \in SUBSET Ancestors(dir) :
           input = [source_file_dir |-> dir, conffiles |-> conffiles]

Locate ==
    /\ call.op = "import"
    /\ call' = [op |-> "find_sphinx_confdir",
                result |-> find_sphinx_confdir(input.source_file_dir, input.conffiles)]
    /\ UNCHANGED <<directives, roles>>
    /\ Kept

SpecLocate == InitLocate /\ [][Locate]_vars

FilterDirectiveNames == {"code", "include", "glossary", "py:code"}
FilterRoleNames == {"ref", "code"}

InitFilter ==
    /\ SPHINX_INSTALLED = TRUE
    /\ Quiet
    /\ \E ds \in SeqsUpTo(FilterDirectiveNames, MaxCatalog),
          rs \in SeqsUpTo(FilterRoleNames, MaxCatalog) :
           input = [directives |-> ds, roles |-> rs]

ApplyFilter ==
    /\ call.op = "import"
    /\ call' = [op |-> "filter_whitelisted_directives_and_roles",
                result |-> filter_whitelisted_directives_and_roles(
                               input.directives, input.roles)]
    /\ UNCHANGED <<directives, roles>>
    /\ Kept

SpecFilter == InitFilter /\ [][ApplyFilter]_vars

ContentLines == {<<>>, <<"x">>, <<" ", "x", " ">>, <<"\t", "y">>}
Arguments == {<<>>, <<"python">>}

InitCodeBlock ==
    /\ SPHINX_INSTALLED \in BOOLEAN
    /\ Quiet
    /\ \E arguments \in Arguments, content \in SeqsUpTo(ContentLines, MaxContent) :
           input = [arguments |-> arguments, content |-> content]

RunCodeBlock ==
    /\ call.op = "import"
    /\ call' = [op |-> "CodeBlockDirective.run",
                result |-> CodeBlockDirective_run(input.arguments, input.content),
                raised |-> NoError]
    /\ UNCHANGED <<directives, roles>>
    /\ Kept

SpecCodeBlock == InitCodeBlock /\ [][RunCodeBlock]_vars

InitExtract ==
    /\ SPHINX_INSTALLED = TRUE
    /\ Quiet
    /\ \E dir \in {NoPath, SomePath(<<"p">>)}, conf \in Confs :
           input = [source_file_dir |-> dir, conffiles |-> {<<"p">>}, conf |-> conf]

Extract ==
    /\ call.op = "import"
    /\ load_sphinx_if_available(input.source_file_dir, input.conffiles, input.conf)
    /\ Kept

SpecExtract == InitExtract /\ [][Extract]_vars

(***************************************************************************)
(* The registries under any sequence of calls.                             *)
(***************************************************************************)
Fixed == UNCHANGED <<SPHINX_INSTALLED, sphinx, input>>

Init ==
    /\ SPHINX_INSTALLED \in BOOLEAN
    /\ sphinx \in IF SPHINX_INSTALLED THEN Toolchains ELSE {NoToolchain}
    /\ directives = EmptyDict
    /\ roles = EmptyDict
    /\ call = [op |-> "import", raised |-> NoError]
    /\ input = [fn |-> "none"]

Clean == clean_docutils_directives_and_roles_cache /\ Fixed

Ignore ==
    \E args \in IgnoreArgs :
        ignore_directives_and_roles(args[1], args[2]) /\ Fixed

RegisterCode ==
    \E a, b, c \in BOOLEAN : register_code_directive(a, b, c) /\ Fixed

RegisterHandler ==
    \E n \in SubstitutionNames, v \in SubstitutionValues :
        register_substitution_handler(n, v) /\ Fixed

RegisterSubstitutions ==
    \E args \in SubstitutionArgs :
        register_substitutions_and_targets(args[1], args[2]) /\ Fixed

LoadIfAvailable ==
    \E args \in LoadArgs :
        load_sphinx_if_available(args[1], args[2], args[3]) /\ Fixed

GetCatalog == get_sphinx_directives_and_roles /\ Fixed

LoadIgnores == load_sphinx_ignores /\ Fixed

Role ==
    \E k \in Keys(roles), t \in ReferenceTexts : InvokeRole(k, t) /\ Fixed

Next ==
    \/ Clean
    \/ Ignore
    \/ RegisterCode
    \/ RegisterHandler
    \/ RegisterSubstitutions
    \/ LoadIfAvailable
    \/ GetCatalog
    \/ LoadIgnores
    \/ Role

Spec == Init /\ [][Next]_vars

(***************************************************************************)
(* Properties.                                                             *)
(***************************************************************************)
Whitelisted == Range(DIRECTIVE_WHITELIST)

Bound(table, name, fn) ==
    /\ Cardinality(Entries(table, name)) = 1
    /\ Get(table, name) = fn

\* the keys of a table whose entry is new or is bound to another handler
Written(old, new) ==
    {k \in Keys(new) : ~Has(old, k) \/ Get(old, k) # Get(new, k)}

\* the i-th element of s that is not in the set `out`
Survivors(s, out) == {i \in DOMAIN s : s[i] \notin out}

IsFiltered(res, s, out) ==
    /\ Len(res) = Cardinality(Survivors(s, out))
    /\ \A i \in Survivors(s, out) :
           res[Cardinality({j \in Survivors(s, out) : j <= i})] = s[i]

\* C1: a resolver installed by register_substitution_handler(name, value)
\* returns, for any text at the reference site, exactly one text node
\* holding the stored value, and no message.
C1_ResolverReturnsStoredValue ==
    (call.op = "role" /\ call.fn.fn = "handler")
        => call.result = [nodes |-> <<Text(call.fn.outer)>>, messages |-> <<>>]

\* C2: the directive names load_sphinx_ignores hands to
\* ignore_directives_and_roles hold no whitelisted name, and the call binds
\* no whitelisted name to IgnoredDirective.
C2_WhitelistNeverIgnored ==
    [][(call'.op = "load_sphinx_ignores" /\ call'.raised = NoError)
           => /\ Range(call'.passed.directives) \cap Whitelisted = {}
              /\ \A n \in Whitelisted :
                     (Has(directives', n) /\ Get(directives', n) = IgnoredDirective)
                         => (Has(directives, n) /\ Get(directives, n) = IgnoredDirective)]_vars

C2_Witness ==
    /\ call.op = "load_sphinx_ignores"
    /\ call.raised = NoError
    /\ "code-block" \in Range(call.found.directives)
    /\ "code" \in Range(call.found.directives)
    /\ Has(directives, "glossary")
    /\ ~Has(directives, "code-block")

\* C3: find_sphinx_confdir returns the nearest directory, from the starting
\* directory up to and including the root, that holds conf.py, and None
\* only when none of them does.
C3_NearestMarkedAncestor ==
    call.op = "find_sphinx_confdir"
        => LET marked == Ancestors(input.source_file_dir) \cap input.conffiles
           IN  IF marked = {}
               THEN call.result = NoPath
               ELSE call.result =
                        SomePath(CHOOSE d \in marked : \A e \in marked : Len(e) <= Len(d))

\* C4: after clean_docutils_directives_and_roles_cache both tables are
\* pristine, whatever was registered before.
C4_CleanRestoresPristine ==
    call.op = "clean_docutils_directives_and_roles_cache"
        => directives = EmptyDict /\ roles = EmptyDict

C4_Witness ==
    /\ call.op = "clean_docutils_directives_and_roles_cache"
    /\ call.had.directives >= 2
    /\ call.had.roles >= 2

\* C5: the SubstitutionMap of load_sphinx_if_available has exactly the
\* names matched in the prolog and the names of the context mapping; a
\* name of the context has the context's value, any other name the value
\* of its last match.  The TargetMap has the value of the last match.
PrologText == IF input.conf.rst_prolog.some THEN input.conf.rst_prolog.text ELSE <<>>

ContextMap ==
    IF Has(input.conf.html_context, "substitutions")
    THEN Get(input.conf.html_context, "substitutions")
    ELSE EmptyDict

LastValue(matches, n) ==
    matches[CHOOSE i \in DOMAIN matches :
                /\ matches[i].key = n
                /\ \A j \in DOMAIN matches : matches[j].key = n => j <= i].value

C5_LastMatchThenContext ==
    (call.op = "load_sphinx_if_available" /\ call.built)
        => LET subs == findall_sub(PrologText)
               links == findall_link(PrologText)
           IN  /\ Keys(call.substitutions) = Keys(subs) \cup Keys(ContextMap)
               /\ \A n \in Keys(call.substitutions) :
                      /\ Cardinality(Entries(call.substitutions, n)) = 1
                      /\ Get(call.substitutions, n) =
                             IF Has(ContextMap, n) THEN Get(ContextMap, n)
                             ELSE LastValue(subs, n)
               /\ Keys(call.targets) = Keys(links)
               /\ \A n \in Keys(call.targets) :
                      /\ Cardinality(Entries(call.targets, n)) = 1
                      /\ Get(call.targets, n) = LastValue(links, n)

C5_Witness ==
    /\ call.op = "load_sphinx_if_available"
    /\ call.built
    /\ \E i, j \in DOMAIN findall_sub(PrologText) :
           /\ i < j
           /\ findall_sub(PrologText)[i].key = findall_sub(PrologText)[j].key
           /\ findall_sub(PrologText)[i].value # findall_sub(PrologText)[j].value
           /\ ~Has(ContextMap, findall_sub(PrologText)[i].key)
    /\ \E i \in DOMAIN findall_sub(PrologText) :
           /\ Has(ContextMap, findall_sub(PrologText)[i].key)
           /\ Get(ContextMap, findall_sub(PrologText)[i].key)
                  # findall_sub(PrologText)[i].value
    /\ Has(ContextMap, "c")

\* C6: filter_whitelisted_directives_and_roles returns the elements that
\* are on no whitelist, in their order and as often as they occur.
C6_FilterIsSubsequence ==
    call.op = "filter_whitelisted_directives_and_roles"
        => /\ IsFiltered(call.result.directives, input.directives, Whitelisted)
           /\ IsFiltered(call.result.roles, input.roles, Range(ROLE_WHITELIST))
           /\ Range(call.result.directives) \cap Whitelisted = {}

C6_Witness ==
    /\ call.op = "filter_whitelisted_directives_and_roles"
    /\ input.directives = <<"glossary", "include", "glossary">>
    /\ input.roles = <<"code", "ref">>

\* C7: without the toolchain, get_sphinx_directives_and_roles and
\* load_sphinx_ignores fail with FeatureUnavailable and leave both tables
\* as they were; load_sphinx_if_available raises nothing, yields no
\* application and leaves both tables as they were.
C7_UnavailableToolchain ==
    [][~SPHINX_INSTALLED
           => /\ call'.op \in {"get_sphinx_directives_and_roles", "load_sphinx_ignores"}
                  => /\ call'.raised = FeatureUnavailable
                     /\ directives' = directives
                     /\ roles' = roles
              /\ call'.op = "load_sphinx_if_available"
                  => /\ call'.raised = NoError
                     /\ call'.app = FALSE
                     /\ directives' = directives
                     /\ roles' = roles]_vars

C7_Witness ==
    /\ ~SPHINX_INSTALLED
    /\ call.op = "load_sphinx_ignores"
    /\ call.raised = FeatureUnavailable
    /\ Has(directives, "code")
    /\ Has(roles, "substitution-a")

\* C8: CodeBlockDirective.run returns one literal block: its text is the
\* content lines with one newline between two lines and nothing else, its
\* language the first argument or the empty string, its classes hold
\* 'code-block'; a missing argument is no error.
RECURSIVE Offset(_, _)
Offset(content, i) ==
    IF i = 1 THEN 0 ELSE Offset(content, i - 1) + Len(content[i - 1]) + 1

C8_LiteralBlock ==
    call.op = "CodeBlockDirective.run"
        => LET c == input.content
               b == call.result[1]
           IN  /\ Len(call.result) = 1
               /\ call.raised = NoError
               /\ b.node = "literal_block"
               /\ Len(b.text) =
                      IF c = <<>> THEN 0 ELSE Offset(c, Len(c)) + Len(c[Len(c)])
               /\ \A i \in DOMAIN c :
                      /\ \A k \in 1..Len(c[i]) : b.text[Offset(c, i) + k] = c[i][k]
                      /\ i < Len(c) => b.text[Offset(c, i) + Len(c[i]) + 1] = "\n"
               /\ b.language =
                      IF input.arguments = <<>> THEN "" ELSE input.arguments[1]
               /\ "code-block" \in Range(b.classes)

C8_Witness ==
    /\ call.op = "CodeBlockDirective.run"
    /\ input.arguments = <<>>
    /\ input.content = << <<" ", "x", " ">>, <<>>, <<"\t", "y">> >>
    /\ call.result[1].language = ""

\* C9: registering a name that is already in a table raises nothing and
\* leaves one entry for the name, bound to the handler of the latest
\* registration; the same registration made again changes nothing.
C9_LastRegistrationWins ==
    /\ \A k \in Keys(directives) : Cardinality(Entries(directives, k)) = 1
    /\ \A k \in Keys(roles) : Cardinality(Entries(roles, k)) = 1
    /\ call.op = "ignore_directives_and_roles"
           => /\ call.raised = NoError
              /\ \A n \in Range(call.directives) : Bound(directives, n, IgnoredDirective)
              /\ \A n \in Range(call.roles) : Bound(roles, n, ignore_role)
              /\ ignore_directives(directives, call.directives) = directives
              /\ ignore_roles(roles, call.roles) = roles
    /\ (call.op = "register_code_directive" /\ ~SPHINX_INSTALLED)
           => /\ call.raised = NoError
              /\ ~call.flags[1] => Bound(directives, "code", CodeBlockDirective)
              /\ ~call.flags[2] => Bound(directives, "code-block", CodeBlockDirective)
              /\ ~call.flags[3] => Bound(directives, "sourcecode", CodeBlockDirective)
              /\ code_directives(directives, SPHINX_INSTALLED, call.flags[1],
                                 call.flags[2], call.flags[3]) = directives
    /\ call.op = "register_substitution_handler"
           => /\ call.raised = NoError
              /\ Bound(roles, SubstitutionKey(call.name), handler(call.text))
              /\ substitution_handler(roles, call.name, call.text) = roles

C9_Witness ==
    /\ call.op = "ignore_directives_and_roles"
    /\ call.directives = <<"code", "code">>
    /\ call.had.directives = <<[key |-> "code", value |-> CodeBlockDirective]>>
    /\ Has(directives, "sourcecode")

====
